---- MODULE Spec2Model ----
(***************************************************************************)
(* Generator::generate of generator/generator.cpp: the single pass that    *)
(* merges the sorted tag list with the bytes of the buffer [begin, end)    *)
(* and writes one table row per source line.  Offsets are relative to      *)
(* begin (begin = 0, end = Len(buf)); the byte *c is buf[c + 1].  The      *)
(* output stream myfile is the sequence of the items written to it: one    *)
(* item per body byte, and one item per piece of markup (tag open, tag     *)
(* close, row markup).  The page chrome written before line 259 and after  *)
(* line 386 does not depend on the buffer or the tags and is left out.     *)
(***************************************************************************)
EXTENDS Integers, Sequences, FiniteSets

\* ---------------------------------------------------------------- bounds
MaxLen == 3       \* longest buffer rendered together with tags
MaxTags == 2      \* longest tag list
MaxTextLen == 3   \* longest buffer of the tag-free renders
MaxLine == 2      \* line numbers the annotation sidecars may name

\* ------------------------------------------------------- bytes and items
NL == 10
QUOT == 34
AMP == 38
APOS == 39
LT == 60
GT == 62

\* "&amp;", "&lt;", "&gt;" as the bytes operator<< writes (lines 366, 371, 376)
AmpEntity == <<38, 97, 109, 112, 59>>
LtEntity == <<38, 108, 116, 59>>
GtEntity == <<38, 103, 116, 59>>

\* One item of the output stream.  k is the kind of the item; a body byte
\* carries its value in n, tag markup carries the name and attributes it was
\* written with (t, the index of the Tag object, is kept for reference), row
\* markup carries the two style strings and the line number.
Item(k, name, attributes, style, style2, n, t) ==
    [k |-> k, name |-> name, attributes |-> attributes,
     style |-> style, style2 |-> style2, n |-> n, t |-> t]

ByteItem(b) == Item("byte", "", "", "", "", b, 0)

Bytes(s) == [i \in 1..Len(s) |-> ByteItem(s[i])]

VARIABLES
    buf,            \* the bytes of [begin, end)
    tags,           \* Generator::tags, in iteration order
    commonFile,     \* the sidecar <file>.common
    coveredFile,    \* the sidecar <file>.coverage
    commonLines,    \* the numbers read from <file>.common
    coveredLines,   \* the numbers read from <file>.coverage
    cerr,           \* what was written to std::cerr
    c,              \* cursor
    line,           \* current line number
    bufferStart,    \* start of the pending-flush window
    tags_it,        \* index of the next pending tag; Len(tags) + 1 is cend()
    next_start,
    next_end,
    next,
    stack,          \* the open tags (indices into tags), outermost first
    myfile,         \* the items written so far
    pc              \* position in the main loop

vars == <<buf, tags, commonFile, coveredFile, commonLines, coveredLines, cerr,
          c, line, bufferStart, tags_it, next_start, next_end, next, stack,
          myfile, pc>>

\* what the main loop leaves as it is
input == <<buf, tags, commonFile, coveredFile, commonLines, coveredLines, cerr>>

end == Len(buf)

Min(a, b) == IF a <= b THEN a ELSE b

\* ------------------------------------------------------------ Tag
\* Tag::open: "<name attributes>", followed by "</name>" when len is 0.
TagOpen(t) ==
    IF tags[t].len # 0
    THEN << Item("open", tags[t].name, tags[t].attributes, "", "", 0, t) >>
    ELSE << Item("open", tags[t].name, tags[t].attributes, "", "", 0, t),
            Item("close", tags[t].name, "", "", "", 0, t) >>

\* Tag::close: "</name>".
TagClose(t) == << Item("close", tags[t].name, "", "", "", 0, t) >>

\* ------------------------------------------------------------ sidecars
\* A sidecar is a file that may not exist; its content is a sequence of
\* whitespace-separated tokens, each a number or something operator>> cannot
\* read as an int.
NoFile == [exists |-> FALSE, toks |-> <<>>]

\* the numbers "while (file >> a)" extracts: those before the first token
\* that is no number; none when the stream could not be opened
RECURSIVE ReadInts(_)
ReadInts(toks) ==
    IF toks = <<>> \/ ~Head(toks).num THEN {}
    ELSE { Head(toks).v } \cup ReadInts(Tail(toks))

\* a do-while reader: it also pushes the 0 a failed extraction leaves in a
GetLinesOnceMore(f) ==
    (IF f.exists THEN ReadInts(f.toks) ELSE {}) \cup {0}

\* Generator::getCommonLines (lines 137-143)
GetCommonLines(f) == IF f.exists THEN ReadInts(f.toks) ELSE {}

\* Generator::getCoveredLines (lines 144-151)
GetCoveredLines(f) == IF f.exists THEN ReadInts(f.toks) ELSE {}

\* ------------------------------------------------------------ row styles
\* The style chosen from commonLines (lines 291-294 and 345-349).
Style(n) ==
    IF n \in commonLines THEN "aquamarine" ELSE "lightcoral"

\* Style2 reading the wrong vector
Style2FromCommon(n) ==
    IF n \in commonLines THEN "gold" ELSE ""

\* The style chosen from coveredLines (lines 296-298 and 351-353).
Style2(n) ==
    IF n \in coveredLines THEN "gold" ELSE ""

\* "<tr style ><th style2 id=1>1</th><td>" (line 300).
FirstRow == << Item("row", "", "", Style(1), Style2(1), 1, 0) >>

\* "</td></tr>\n<tr style ><th style2 id=line>line</th><td>" (lines 355-358).
RowBreak(n) == << Item("rowbreak", "", "", Style(n), Style2(n), n, 0) >>

\* "</td></tr>\n</table><hr/>" (lines 384-386).
LastRowEnd == << Item("rowend", "", "", "", "", 0, 0) >>

\* ------------------------------------------------------------ flush
\* The bytes the flush lambda writes: [bufferStart, c).
Flushed == Bytes(SubSeq(buf, bufferStart + 1, c))

\* CloseAll iterating the stack forwards: outermost closed first
CloseAllOuterFirst(s) == [i \in 1..Len(s) |-> TagClose(s[i])[1]]

\* closes of the whole stack, innermost first (lines 341-342)
RECURSIVE CloseAll(_)
CloseAll(s) ==
    IF s = <<>> THEN <<>>
    ELSE TagClose(s[Len(s)]) \o CloseAll(SubSeq(s, 1, Len(s) - 1))

\* OpenAll reopening only the innermost tag
OpenAllTopOnly(s) == IF s = <<>> THEN <<>> ELSE TagOpen(s[Len(s)])

\* opens of the whole stack, outermost first (lines 359-360)
RECURSIVE OpenAll(_)
OpenAll(s) ==
    IF s = <<>> THEN <<>>
    ELSE TagOpen(s[1]) \o OpenAll(Tail(s))

\* ------------------------------------------------------------ inputs
Interval(n) == { iv \in (0..n) \X (0..n) : iv[1] + iv[2] <= n }

\* The name and attribute text of the i-th tag of a list: a bare span, or an
\* anchor with attribute text.
TagKind(i) == IF i % 2 = 1 THEN <<"span", "">> ELSE <<"a", "href">>

TagLists(n) ==
    UNION { { [i \in 1..k |-> [name |-> TagKind(i)[1], attributes |-> TagKind(i)[2],
                               pos |-> ivs[i][1], len |-> ivs[i][2]]] :
                 ivs \in [1..k -> Interval(n)] } : k \in 0..MaxTags }

\* The order Generator::tags hands the tags over in: ascending by pos, and a
\* later tag that starts inside an earlier one ends inside it.
WellFormed(ts, n) ==
    /\ \A i \in 1..Len(ts) : ts[i].pos + ts[i].len <= n
    /\ \A i, j \in 1..Len(ts) :
          i < j =>
             /\ ts[i].pos <= ts[j].pos
             /\ ts[j].pos < ts[i].pos + ts[i].len
                   => ts[j].pos + ts[j].len <= ts[i].pos + ts[i].len

SeqsUpTo(S, n) == UNION { [1..k -> S] : k \in 0..n }

\* 'a', newline, '<'
TagBytes == {97, NL, LT}

\* 'a', the five reserved characters, newline and a byte above 127
TextBytes == {97, NL, LT, GT, AMP, QUOT, APOS, 233}

Tg(name, attributes, pos, len) ==
    [name |-> name, attributes |-> attributes, pos |-> pos, len |-> len]

\* the buffers and tag lists of the worked examples:
\* "hello" with span{1, 3}; "ab\ncd" with span{1, 3}; "ab\ncd"; "&lt;"; "a<b"
Examples ==
    { << <<104, 101, 108, 108, 111>>, << Tg("span", "", 1, 3) >> >>,
      << <<97, 98, NL, 99, 100>>, << Tg("span", "", 1, 3) >> >>,
      << <<97, 98, NL, 99, 100>>, <<>> >>,
      << <<AMP, 108, 116, 59>>, <<>> >>,
      << <<97, LT, 98>>, <<>> >> }

\* generate called: nothing written yet, the sidecars not read; the locals
\* of lines 261-303 already hold the values their declarations give them
Start(b, ts, common, covered) ==
    /\ buf = b
    /\ tags = ts
    /\ commonFile = common
    /\ coveredFile = covered
    /\ commonLines = {}
    /\ coveredLines = {}
    /\ cerr = <<>>
    /\ c = 0
    /\ line = 1
    /\ bufferStart = 0
    /\ tags_it = 1
    /\ next_start = IF ts # <<>> THEN ts[1].pos ELSE Len(b)
    /\ next_end = Len(b)
    /\ next = IF ts # <<>> THEN ts[1].pos ELSE Len(b)
    /\ stack = <<>>
    /\ myfile = <<>>
    /\ pc = "entry"

\* buffers with tag lists; a buffer with a '<' in it gets at most one tag
InitTagged ==
    \E n \in 0..MaxLen :
      \E ts \in { l \in TagLists(n) : WellFormed(l, n) } :
        \E b \in [1..n -> TagBytes] :
           /\ Len(ts) > 1 => \A i \in 1..n : b[i] # LT
           /\ Start(b, ts, NoFile, NoFile)

InitText ==
    \E b \in SeqsUpTo(TextBytes, MaxTextLen) : Start(b, <<>>, NoFile, NoFile)

\* the tokens of a sidecar: the line numbers, and one that is no number
Toks == { [num |-> TRUE, v |-> n] : n \in 1..MaxLine }
           \cup { [num |-> FALSE, v |-> 0] }

Files == { NoFile }
           \cup { [exists |-> TRUE, toks |-> s] : s \in SeqsUpTo(Toks, MaxLine) }

\* buffers of empty lines with every pair of sidecars
InitLines ==
    \E b \in SeqsUpTo({NL}, MaxLine) :
      \E common \in Files, covered \in Files :
         Start(b, <<>>, common, covered)

InitExamples ==
    \E e \in Examples : Start(e[1], e[2], NoFile, NoFile)

Init == InitTagged \/ InitText \/ InitLines \/ InitExamples

\* ------------------------------------------------------------ output file
\* OpenFails without the return: the error is reported and generate goes on
OpenFailsGoesOn ==
    /\ pc = "entry"
    /\ cerr' = << "Error generating" >>
    /\ commonLines' = GetCommonLines(commonFile)
    /\ coveredLines' = GetCoveredLines(coveredFile)
    /\ myfile' = FirstRow'
    /\ pc' = "loop"
    /\ UNCHANGED <<buf, tags, commonFile, coveredFile, c, line,
                   bufferStart, tags_it, next_start, next_end, next, stack>>

\* the output file cannot be opened: report and return (lines 172-178)
OpenFails ==
    /\ pc = "entry"
    /\ cerr' = << "Error generating" >>
    /\ pc' = "failed"
    /\ UNCHANGED <<buf, tags, commonFile, coveredFile, commonLines,
                   coveredLines, c, line, bufferStart, tags_it, next_start,
                   next_end, next, stack, myfile>>

\* the output file is open: the sidecars are read (281-282) and the first
\* row is written (289-301)
OpenOk ==
    /\ pc = "entry"
    /\ commonLines' = GetCommonLines(commonFile)
    /\ coveredLines' = GetCoveredLines(coveredFile)
    /\ myfile' = FirstRow'
    /\ pc' = "loop"
    /\ UNCHANGED <<buf, tags, commonFile, coveredFile, cerr, c, line,
                   bufferStart, tags_it, next_start, next_end, next, stack>>

\* ------------------------------------------------------------ main loop
\* line 306, taken: flush (307) and enter the close loop
EventBegin ==
    /\ pc = "loop"
    /\ c = next
    /\ myfile' = myfile \o Flushed
    /\ bufferStart' = c
    /\ pc' = "close"
    /\ UNCHANGED <<input, c, line, tags_it, next_start, next_end, next, stack>>

\* line 306, not taken
NoEvent ==
    /\ pc = "loop"
    /\ c # next
    /\ pc' = "switch"
    /\ UNCHANGED <<input, c, line, bufferStart, tags_it, next_start, next_end,
                   next, stack, myfile>>

\* the close loop put off while a pending tag starts at the cursor
CloseCondNotAtStart == stack # <<>> /\ c >= next_end /\ c # next_start

\* the close loop leaving a tag that ends exactly at the cursor open
CloseCondStrict == stack # <<>> /\ c > next_end

\* the condition of the close loop (line 308)
CloseCond == stack # <<>> /\ c >= next_end

\* the condition of the open loop (line 321)
OpenCond == c = next_start /\ tags_it # Len(tags) + 1

\* CloseTag without lines 313-316: next_end is left at the buffer end
CloseTagNoRecompute ==
    /\ pc = "close"
    /\ CloseCond
    /\ stack' = SubSeq(stack, 1, Len(stack) - 1)
    /\ myfile' = myfile \o TagClose(stack[Len(stack)])
    /\ next_end' = end
    /\ UNCHANGED <<input, c, line, bufferStart, tags_it, next_start, next, pc>>

\* CloseTag taking the tag at the front of the deque (pop_front)
CloseTagPopFront ==
    /\ pc = "close"
    /\ CloseCond
    /\ LET rest == Tail(stack)
       IN /\ stack' = rest
          /\ myfile' = myfile \o TagClose(Head(stack))
          /\ next_end' = IF rest # <<>>
                         THEN tags[rest[Len(rest)]].pos + tags[rest[Len(rest)]].len
                         ELSE end
    /\ UNCHANGED <<input, c, line, bufferStart, tags_it, next_start, next, pc>>

\* one iteration of the close loop (lines 308-317)
CloseTag ==
    /\ pc = "close"
    /\ CloseCond
    /\ LET top == stack[Len(stack)]
           rest == SubSeq(stack, 1, Len(stack) - 1)
       IN /\ stack' = rest
          /\ myfile' = myfile \o TagClose(top)
          /\ next_end' = IF rest # <<>>
                         THEN tags[rest[Len(rest)]].pos + tags[rest[Len(rest)]].len
                         ELSE end
    /\ UNCHANGED <<input, c, line, bufferStart, tags_it, next_start, next, pc>>

\* the close loop is over and c >= end: break (318-319), then lines 384-386
Terminate ==
    /\ pc = "close"
    /\ ~CloseCond
    /\ c >= end
    /\ myfile' = myfile \o LastRowEnd
    /\ pc' = "done"
    /\ UNCHANGED <<input, c, line, bufferStart, tags_it, next_start, next_end,
                   next, stack>>

\* the close loop is over and c < end: go on to the open loop
CloseExit ==
    /\ pc = "close"
    /\ ~CloseCond
    /\ c < end
    /\ pc' = "open"
    /\ UNCHANGED <<input, c, line, bufferStart, tags_it, next_start, next_end,
                   next, stack, myfile>>

\* OpenTag taking the end of the tag one byte too far
OpenTagLateEnd ==
    /\ pc = "open"
    /\ OpenCond
    /\ myfile' = myfile \o TagOpen(tags_it)
    /\ IF tags[tags_it].len # 0
       THEN /\ stack' = Append(stack, tags_it)
            /\ next_end' = c + tags[tags_it].len + 1
       ELSE UNCHANGED <<stack, next_end>>
    /\ tags_it' = tags_it + 1
    /\ next_start' = IF tags_it + 1 # Len(tags) + 1
                     THEN tags[tags_it + 1].pos ELSE end
    /\ UNCHANGED <<input, c, line, bufferStart, next, pc>>

\* OpenTag putting the new tag under the open ones instead of on top
OpenTagPushFront ==
    /\ pc = "open"
    /\ OpenCond
    /\ myfile' = myfile \o TagOpen(tags_it)
    /\ IF tags[tags_it].len # 0
       THEN /\ stack' = << tags_it >> \o stack
            /\ next_end' = c + tags[tags_it].len
       ELSE UNCHANGED <<stack, next_end>>
    /\ tags_it' = tags_it + 1
    /\ next_start' = IF tags_it + 1 # Len(tags) + 1
                     THEN tags[tags_it + 1].pos ELSE end
    /\ UNCHANGED <<input, c, line, bufferStart, next, pc>>

\* one iteration of the open loop (lines 321-331)
OpenTag ==
    /\ pc = "open"
    /\ OpenCond
    /\ myfile' = myfile \o TagOpen(tags_it)
    /\ IF tags[tags_it].len # 0
       THEN /\ stack' = Append(stack, tags_it)
            /\ next_end' = c + tags[tags_it].len
       ELSE UNCHANGED <<stack, next_end>>
    /\ tags_it' = tags_it + 1
    /\ next_start' = IF tags_it + 1 # Len(tags) + 1
                     THEN tags[tags_it + 1].pos ELSE end
    /\ UNCHANGED <<input, c, line, bufferStart, next, pc>>

\* OpenExit taking the next tag start as the next event, without the min
OpenExitNoMin ==
    /\ pc = "open"
    /\ ~OpenCond
    /\ next' = next_start
    /\ pc' = "switch"
    /\ UNCHANGED <<input, c, line, bufferStart, tags_it, next_start, next_end,
                   stack, myfile>>

\* the open loop is over: line 333
OpenExit ==
    /\ pc = "open"
    /\ ~OpenCond
    /\ next' = Min(next_end, next_start)
    /\ pc' = "switch"
    /\ UNCHANGED <<input, c, line, bufferStart, tags_it, next_start, next_end,
                   stack, myfile>>

\* Newline popping the tags it closes, so that nothing is left to reopen
NewlinePops ==
    /\ pc = "switch"
    /\ c < end
    /\ buf[c + 1] = NL
    /\ myfile' = myfile \o Flushed \o CloseAll(stack) \o RowBreak(line + 1)
    /\ stack' = <<>>
    /\ next_end' = end
    /\ bufferStart' = c + 1
    /\ line' = line + 1
    /\ c' = c + 1
    /\ pc' = "loop"
    /\ UNCHANGED <<input, tags_it, next_start, next>>

\* Newline without ++bufferStart: the newline stays in the flush window
NewlineKept ==
    /\ pc = "switch"
    /\ c < end
    /\ buf[c + 1] = NL
    /\ myfile' = myfile \o Flushed \o CloseAll(stack) \o RowBreak(line + 1)
                        \o OpenAll(stack)
    /\ bufferStart' = c
    /\ line' = line + 1
    /\ c' = c + 1
    /\ pc' = "loop"
    /\ UNCHANGED <<input, tags_it, next_start, next_end, next, stack>>

\* case '\n' (lines 337-362) and ++c
Newline ==
    /\ pc = "switch"
    /\ c < end
    /\ buf[c + 1] = NL
    /\ myfile' = myfile \o Flushed \o CloseAll(stack) \o RowBreak(line + 1)
                        \o OpenAll(stack)
    /\ bufferStart' = c + 1
    /\ line' = line + 1
    /\ c' = c + 1
    /\ pc' = "loop"
    /\ UNCHANGED <<input, tags_it, next_start, next_end, next, stack>>

\* flush, ++bufferStart, write the entity (the three cases share this shape)
Escape(entity) ==
    /\ myfile' = myfile \o Flushed \o Bytes(entity)
    /\ bufferStart' = c + 1
    /\ c' = c + 1
    /\ pc' = "loop"
    /\ UNCHANGED <<input, line, tags_it, next_start, next_end, next, stack>>

\* EscapeAmp writing the ampersand as it is
EscapeAmpRaw ==
    /\ pc = "switch"
    /\ c < end
    /\ buf[c + 1] = AMP
    /\ Escape(<< AMP >>)

\* case '&' (lines 363-367) and ++c
EscapeAmp ==
    /\ pc = "switch"
    /\ c < end
    /\ buf[c + 1] = AMP
    /\ Escape(AmpEntity)

\* EscapeLt without the flush: the entity is written over the pending bytes
EscapeLtNoFlush ==
    /\ pc = "switch"
    /\ c < end
    /\ buf[c + 1] = LT
    /\ myfile' = myfile \o Bytes(LtEntity)
    /\ bufferStart' = c + 1
    /\ c' = c + 1
    /\ pc' = "loop"
    /\ UNCHANGED <<input, line, tags_it, next_start, next_end, next, stack>>

\* case '<' (lines 368-372) and ++c
EscapeLt ==
    /\ pc = "switch"
    /\ c < end
    /\ buf[c + 1] = LT
    /\ Escape(LtEntity)

\* EscapeGt writing the entity of the case above it
EscapeGtAsLt ==
    /\ pc = "switch"
    /\ c < end
    /\ buf[c + 1] = GT
    /\ Escape(LtEntity)

\* case '>' (lines 373-377) and ++c
EscapeGt ==
    /\ pc = "switch"
    /\ c < end
    /\ buf[c + 1] = GT
    /\ Escape(GtEntity)

\* Plain without ++c: the cursor stays on the byte
PlainNoAdvance ==
    /\ pc = "switch"
    /\ c < end
    /\ buf[c + 1] \notin {NL, AMP, LT, GT}
    /\ pc' = "loop"
    /\ UNCHANGED <<input, c, line, bufferStart, tags_it, next_start, next_end,
                   next, stack, myfile>>

\* default (lines 378-379) and ++c
Plain ==
    /\ pc = "switch"
    /\ c < end
    /\ buf[c + 1] \notin {NL, AMP, LT, GT}
    /\ c' = c + 1
    /\ pc' = "loop"
    /\ UNCHANGED <<input, line, bufferStart, tags_it, next_start, next_end,
                   next, stack, myfile>>

Next ==
    \/ OpenFails
    \/ OpenOk
    \/ EventBegin
    \/ NoEvent
    \/ CloseTag
    \/ Terminate
    \/ CloseExit
    \/ OpenTag
    \/ OpenExit
    \/ Newline
    \/ EscapeAmp
    \/ EscapeLt
    \/ EscapeGt
    \/ Plain

Spec == Init /\ [][Next]_vars

\* ================================================================ checks
\* ---------------------------------------------------------- readers of myfile
Done == pc = "done"

\* the output file is open and the body is being written, or was
Rendering == pc \notin {"entry", "failed"}

IsRow(x) == x.k = "row" \/ x.k = "rowbreak"

\* number of newline bytes among the first o bytes of the buffer
NewlinesBefore(o) == Cardinality({ i \in 1..o : buf[i] = NL })

\* the line the byte at offset o lies on
LineOf(o) == 1 + NewlinesBefore(o)

\* the indices of myfile lying in row r, the row markup excluded
RowIdx(r) ==
    { i \in 1..Len(myfile) :
         /\ ~IsRow(myfile[i])
         /\ myfile[i].k # "rowend"
         /\ Cardinality({ j \in 1..i : IsRow(myfile[j]) }) = r }

\* the values of the body bytes among the items of out, in order
RECURSIVE BodyOf(_)
BodyOf(out) ==
    IF out = <<>> THEN <<>>
    ELSE (IF Head(out).k = "byte" THEN << Head(out).n >> ELSE <<>>)
         \o BodyOf(Tail(out))

\* the items of myfile at the indices of S, in order
RECURSIVE Pick(_, _)
Pick(S, i) ==
    IF i > Len(myfile) THEN <<>>
    ELSE (IF i \in S THEN << myfile[i] >> ELSE <<>>) \o Pick(S, i + 1)

\* out with the tag markup stripped: body bytes kept, a row break read back
\* as the newline it stands for
RECURSIVE Strip(_)
Strip(out) ==
    IF out = <<>> THEN <<>>
    ELSE (CASE Head(out).k = "byte" -> << Head(out).n >>
            [] Head(out).k = "rowbreak" -> << NL >>
            [] OTHER -> <<>>)
         \o Strip(Tail(out))

StartsWith(s, p) == Len(s) >= Len(p) /\ SubSeq(s, 1, Len(p)) = p

Drop(s, n) == SubSeq(s, n + 1, Len(s))

\* the five entities un-escaped, left to right, everything else kept
RECURSIVE Unescape(_)
Unescape(s) ==
    IF s = <<>> THEN <<>>
    ELSE CASE StartsWith(s, <<38, 108, 116, 59>>) ->
                 << LT >> \o Unescape(Drop(s, 4))
           [] StartsWith(s, <<38, 103, 116, 59>>) ->
                 << GT >> \o Unescape(Drop(s, 4))
           [] StartsWith(s, <<38, 97, 109, 112, 59>>) ->
                 << AMP >> \o Unescape(Drop(s, 5))
           [] StartsWith(s, <<38, 113, 117, 111, 116, 59>>) ->
                 << QUOT >> \o Unescape(Drop(s, 6))
           [] StartsWith(s, <<38, 97, 112, 111, 115, 59>>) ->
                 << APOS >> \o Unescape(Drop(s, 6))
           [] OTHER -> << Head(s) >> \o Unescape(Tail(s))

\* the text myfile's first n items render
Decoded(n) == Unescape(Strip(SubSeq(myfile, 1, n)))

\* body-text escaping as specified: three characters replaced, the rest kept
RECURSIVE BodyEscaped(_)
BodyEscaped(s) ==
    IF s = <<>> THEN <<>>
    ELSE (CASE Head(s) = LT -> <<38, 108, 116, 59>>
            [] Head(s) = GT -> <<38, 103, 116, 59>>
            [] Head(s) = AMP -> <<38, 97, 109, 112, 59>>
            [] OTHER -> << Head(s) >>)
         \o BodyEscaped(Tail(s))

RECURSIVE WithoutNL(_)
WithoutNL(s) ==
    IF s = <<>> THEN <<>>
    ELSE (IF Head(s) = NL THEN <<>> ELSE << Head(s) >>) \o WithoutNL(Tail(s))

\* the bytes of source line r, its newline excluded
RECURSIVE LineTextFrom(_, _)
LineTextFrom(r, i) ==
    IF i > Len(buf) THEN <<>>
    ELSE (IF buf[i] # NL /\ LineOf(i - 1) = r THEN << buf[i] >> ELSE <<>>)
         \o LineTextFrom(r, i + 1)

LineText(r) == LineTextFrom(r, 1)

\* The stack-based balance check over the tag markup of out: an open pushes
\* its name, a close must name the top and pops it, and the end of a row must
\* find the stack empty.  Yields the names still open, or <<"!">> on a failure.
RECURSIVE Balance(_, _)
Balance(out, st) ==
    IF out = <<>> THEN st
    ELSE LET x == Head(out) IN
         CASE x.k = "open" -> Balance(Tail(out), Append(st, x.name))
           [] x.k = "close" ->
                 IF st # <<>> /\ st[Len(st)] = x.name
                 THEN Balance(Tail(out), SubSeq(st, 1, Len(st) - 1))
                 ELSE <<"!">>
           [] x.k = "rowbreak" \/ x.k = "rowend" ->
                 IF st = <<>> THEN Balance(Tail(out), st) ELSE <<"!">>
           [] OTHER -> Balance(Tail(out), st)

\* ---------------------------------------------------------------- C1
\* C1: the tag markup written to myfile passes the stack-based balance
\* check: no close ever meets a different name on top, every row ends with
\* the check's stack empty, and so does the finished document.
C1_Balanced ==
    /\ Balance(myfile, <<>>) # <<"!">>
    /\ Done => Balance(myfile, <<>>) = <<>>

\* a finished render in which two nested tags were closed at a line break
C1_Witness ==
    /\ Done
    /\ \E i \in 3..Len(myfile) :
          /\ myfile[i].k = "rowbreak"
          /\ myfile[i - 1].k = "close"
          /\ myfile[i - 2].k = "close"
          /\ myfile[i - 1].name # myfile[i - 2].name

\* ---------------------------------------------------------------- C2
\* the row each item of myfile lies in
RowMap == [i \in 1..Len(myfile) |-> Cardinality({ j \in 1..i : IsRow(myfile[j]) })]

\* the indices of row r holding the open (k = "open") or close markup of tag t
MarkIdx(r, t, k) == { i \in RowIdx(r) : myfile[i].k = k /\ myfile[i].t = t }

\* C2: in the finished document a tag of nonzero length has, in the row of
\* every line from the line of its first byte to the line of its last byte,
\* exactly one open and one close, written with the tag's name and
\* attributes; on every line but its first the open comes before the row's
\* text and on every line but its last the close comes after the row's text.
C2_CrossLine ==
    Done =>
      LET rows == RowMap
          In(r, k) == { i \in 1..Len(myfile) : rows[i] = r /\ myfile[i].k = k }
      IN \A t \in 1..Len(tags) :
           tags[t].len # 0 =>
             LET first == LineOf(tags[t].pos)
                 last == LineOf(tags[t].pos + tags[t].len - 1)
             IN \A r \in first..last :
                  LET opens == { i \in In(r, "open") : myfile[i].t = t }
                      closes == { i \in In(r, "close") : myfile[i].t = t }
                      bytes == In(r, "byte")
                  IN /\ Cardinality(opens) = 1
                     /\ Cardinality(closes) = 1
                     /\ \A i \in opens :
                           /\ myfile[i].name = tags[t].name
                           /\ myfile[i].attributes = tags[t].attributes
                           /\ \A j \in closes :
                                 i < j /\ myfile[j].name = tags[t].name
                           /\ r > first => \A b \in bytes : i < b
                     /\ \A j \in closes :
                           r < last => \A b \in bytes : b < j

\* a finished render of "ab\ncd" with span{1, 3}, the tag on both rows
C2_Witness ==
    /\ Done
    /\ buf = <<97, 98, NL, 99, 100>>
    /\ tags # <<>>
    /\ MarkIdx(1, 1, "open") # {}
    /\ MarkIdx(2, 1, "open") # {}

\* ---------------------------------------------------------------- C3
\* C3: with an empty tag list the finished body, markup stripped, row breaks
\* read as newlines and the five entities un-escaped, is the buffer.
C3_RoundTrip ==
    (Done /\ tags = <<>>) => Decoded(Len(myfile)) = buf

\* the finished render of the four bytes "&lt;"
C3_Witness ==
    /\ Done
    /\ tags = <<>>
    /\ buf = <<AMP, 108, 116, 59>>

\* ---------------------------------------------------------------- C4
RowItems == SelectSeq(myfile, IsRow)

\* C4: the rows written so far are numbered 1, 2, ... up to the current
\* line, no newline byte is written as content, and the finished document
\* has one row per source line (newlines + 1), each holding the escaped text
\* of its line, and ends with the single row end.
C4_OneRowPerLine ==
  Rendering =>
    /\ Len(RowItems) = line
    /\ \A i \in 1..Len(RowItems) : RowItems[i].n = i
    /\ myfile[1].k = "row"
    /\ \A i \in 2..Len(myfile) : myfile[i].k # "row"
    /\ \A i \in 1..Len(myfile) : myfile[i].k = "byte" => myfile[i].n # NL
    /\ Done =>
         /\ Len(RowItems) = 1 + NewlinesBefore(Len(buf))
         /\ \A r \in 1..Len(RowItems) :
               BodyOf(Pick(RowIdx(r), 1)) = BodyEscaped(LineText(r))

\* a finished render of a buffer that ends in a newline and has text before
C4_Witness ==
    /\ Done
    /\ Len(buf) >= 2
    /\ buf[Len(buf)] = NL
    /\ buf[1] = LT
    /\ Len(RowItems) = 2

\* ---------------------------------------------------------------- C5
\* C5: every row written carries the 'present' primary style exactly when
\* its line number is in commonLines and the 'absent' one otherwise, and the
\* covered style exactly when its number is in coveredLines; no step changes
\* either set.
C5_Styles ==
    /\ [](\A i \in 1..Len(myfile) :
            IsRow(myfile[i]) =>
               /\ myfile[i].style \in {"aquamarine", "lightcoral"}
               /\ myfile[i].style = "aquamarine" <=> myfile[i].n \in commonLines
               /\ myfile[i].style2 \in {"gold", ""}
               /\ myfile[i].style2 = "gold" <=> myfile[i].n \in coveredLines)
    /\ [][Rendering => (commonLines' = commonLines
                          /\ coveredLines' = coveredLines)]_vars

\* two rows written with commonLines = {2} and coveredLines = {1}
C5_Witness ==
    /\ Done
    /\ commonLines = {2}
    /\ coveredLines = {1}
    /\ Len(RowItems) = 2

\* ---------------------------------------------------------------- C6
Opens(t) == { i \in 1..Len(myfile) : myfile[i].k = "open" /\ myfile[i].t = t }

Closes(t) == { i \in 1..Len(myfile) : myfile[i].k = "close" /\ myfile[i].t = t }

Least(S) == CHOOSE i \in S : \A j \in S : i <= j

Greatest(S) == CHOOSE i \in S : \A j \in S : j <= i

\* C6: in the finished document the first open of a tag of nonzero length
\* comes when exactly the bytes before its start have been rendered, its last
\* close when exactly the bytes before its end have been, and the body bytes
\* in between are the escaped bytes of its range, newlines left out; "hello"
\* with span{1, 3} renders as h, open, e, l, l, close, o.
C6_TagExtent ==
    Done =>
      /\ \A t \in 1..Len(tags) :
           tags[t].len # 0 =>
             /\ Opens(t) # {}
             /\ Closes(t) # {}
             /\ Decoded(Least(Opens(t)) - 1) = SubSeq(buf, 1, tags[t].pos)
             /\ Decoded(Greatest(Closes(t)))
                   = SubSeq(buf, 1, tags[t].pos + tags[t].len)
             /\ BodyOf(SubSeq(myfile, Least(Opens(t)), Greatest(Closes(t))))
                   = BodyEscaped(WithoutNL(SubSeq(buf, tags[t].pos + 1,
                                                  tags[t].pos + tags[t].len)))
      /\ (buf = <<104, 101, 108, 108, 111>> /\ tags = << Tg("span", "", 1, 3) >>)
            => myfile = FirstRow \o Bytes(<<104>>) \o TagOpen(1)
                          \o Bytes(<<101, 108, 108>>) \o TagClose(1)
                          \o Bytes(<<111>>) \o LastRowEnd

\* the finished render of "hello" with span{1, 3}
C6_Witness ==
    /\ Done
    /\ buf = <<104, 101, 108, 108, 111>>
    /\ tags # <<>>
    /\ Closes(1) # {}

\* ---------------------------------------------------------------- C7
\* the close boundary the stack asks for: the end of its top, or the buffer end
StackEnd ==
    IF stack = <<>> THEN end
    ELSE tags[stack[Len(stack)]].pos + tags[stack[Len(stack)]].len

ZeroLengthForm(t) ==
    /\ \A i \in 1..Len(stack) : stack[i] # t
    /\ Cardinality(Opens(t)) <= 1
    /\ \A i \in Opens(t) :
          /\ i < Len(myfile)
          /\ myfile[i + 1].k = "close"
          /\ myfile[i + 1].t = t
          /\ Decoded(i - 1) = SubSeq(buf, 1, tags[t].pos)
    /\ (pc = "open" /\ tags_it = t + 1) => next_end = StackEnd

\* C7: a tag of length 0 is written once, as an open immediately followed by
\* its own close when exactly the bytes before its start have been rendered;
\* it is never on the stack, leaves next_end what it was, and no line break
\* closes or reopens it.
C7_ZeroLength ==
    \A t \in 1..Len(tags) :
      tags[t].len = 0 =>
        /\ ZeroLengthForm(t)
        /\ Done => Cardinality(Opens(t)) = 1

\* ---------------------------------------------------------------- C8
\* the row the item at index i lies in
RowAt(i) == Cardinality({ j \in 1..i : IsRow(myfile[j]) })

SameStart(t, u) == t < u /\ tags[t].pos = tags[u].pos

\* C8 as stated: of two tags with the same start the earlier one of the list
\* is opened first, and if they also share the end offset the later one is
\* closed first.
C8_AsStated ==
    Done =>
      \A t, u \in 1..Len(tags) :
        (SameStart(t, u) /\ Opens(t) # {} /\ Opens(u) # {}) =>
          /\ Least(Opens(t)) < Least(Opens(u))
          /\ tags[t].len = tags[u].len
                => Greatest(Closes(u)) < Greatest(Closes(t))

\* C8, amended: tags with the same start have their opens written in list
\* order; those of nonzero length are opened in that order on every row they
\* are opened on and, when they share the end offset too, closed in the
\* reverse order on every row; a tag of length 0 is closed right after its
\* own open.
C8_SameStart ==
    Done =>
      \A t, u \in 1..Len(tags) :
        SameStart(t, u) =>
          /\ Opens(u) # {} => (Opens(t) # {} /\ Least(Opens(t)) < Least(Opens(u)))
          /\ (tags[t].len # 0 /\ tags[u].len # 0) =>
                /\ Opens(u) # {}
                /\ \A i \in Opens(u) :
                      \E j \in Opens(t) : j < i /\ RowAt(j) = RowAt(i)
                /\ tags[t].len = tags[u].len =>
                      /\ Cardinality(Closes(t)) = Cardinality(Closes(u))
                      /\ \A j \in Closes(t) :
                            \E i \in Closes(u) : i < j /\ RowAt(i) = RowAt(j)
          /\ \A z \in {t, u} :
                tags[z].len = 0 =>
                   \A i \in Opens(z) :
                      i < Len(myfile) /\ myfile[i + 1].k = "close"
                                      /\ myfile[i + 1].t = z

\* a finished render with two tags of the same range that crosses a line break
C8_Witness ==
    /\ Done
    /\ Len(tags) >= 2
    /\ tags[1].pos = tags[2].pos
    /\ tags[1].len = tags[2].len
    /\ Cardinality(Closes(2)) >= 2

\* ---------------------------------------------------------------- C9
\* the tags out leaves open, outermost first; <<0>> when a close does not
\* name the tag opened last
RECURSIVE OpenTags(_, _)
OpenTags(out, st) ==
    IF out = <<>> THEN st
    ELSE LET x == Head(out) IN
         CASE x.k = "open" -> OpenTags(Tail(out), Append(st, x.t))
           [] x.k = "close" ->
                 IF st # <<>> /\ st[Len(st)] = x.t
                 THEN OpenTags(Tail(out), SubSeq(st, 1, Len(st) - 1))
                 ELSE <<0>>
           [] OTHER -> OpenTags(Tail(out), st)

RowEnds == { i \in 1..Len(myfile) : myfile[i].k = "rowend" }

\* C9: the tags the output leaves open are always exactly the stack, so each
\* close is that of the innermost open tag; the render ends with the cursor
\* at the buffer end, the stack empty and every tag closed, the final row
\* closed once as the last thing written, and nothing can follow.
C9_Terminal ==
    /\ OpenTags(myfile, <<>>) = stack
    /\ ~Done => RowEnds = {}
    /\ Done =>
         /\ c = end
         /\ stack = <<>>
         /\ RowEnds = {Len(myfile)}
         /\ ~ENABLED Next

\* a finished render whose last two closes, of two different tags, come
\* right before the final row end
C9_Witness ==
    /\ Done
    /\ Len(myfile) >= 4
    /\ myfile[Len(myfile) - 1].k = "close"
    /\ myfile[Len(myfile) - 2].k = "close"
    /\ myfile[Len(myfile) - 1].t # myfile[Len(myfile) - 2].t
    /\ tags[myfile[Len(myfile) - 2].t].len # 0

\* ---------------------------------------------------------------- C10
\* C10: the body bytes written so far are those of the bytes before
\* bufferStart, newlines left out, with '<', '>' and '&' replaced by &lt;,
\* &gt; and &amp; and every other byte as it is; so is the finished body for
\* the whole buffer.
C10_BodyEscape ==
    /\ BodyOf(myfile) = BodyEscaped(WithoutNL(SubSeq(buf, 1, bufferStart)))
    /\ Done => BodyOf(myfile) = BodyEscaped(WithoutNL(buf))

\* a finished render of a buffer with a quote, a byte above 127 and a '>'
C10_Witness ==
    /\ Done
    /\ \E i, j, k \in 1..Len(buf) :
          buf[i] \in {QUOT, APOS} /\ buf[j] = 233 /\ buf[k] = GT

\* ---------------------------------------------------------------- C11
NoAnnotations(f) == ~f.exists \/ f.toks = <<>>

\* C11: a sidecar that is missing or empty gives an empty set and nothing
\* is reported on std::cerr; when both are, every row written has the
\* 'absent' primary style and no covered style.
C11_MissingSidecar ==
    Rendering =>
      /\ cerr = <<>>
      /\ NoAnnotations(commonFile) => commonLines = {}
      /\ NoAnnotations(coveredFile) => coveredLines = {}
      /\ (NoAnnotations(commonFile) /\ NoAnnotations(coveredFile)) =>
            \A i \in 1..Len(myfile) :
               IsRow(myfile[i]) =>
                  myfile[i].style = "lightcoral" /\ myfile[i].style2 = ""

\* two rows rendered with .common missing and .coverage empty
C11_Witness ==
    /\ Done
    /\ ~commonFile.exists
    /\ coveredFile.exists
    /\ coveredFile.toks = <<>>
    /\ Len(RowItems) = 2

\* ---------------------------------------------------------------- C12
\* C12: once the error is reported generate has returned: nothing is written
\* to the output, the sidecars are not read, the tag iterator and the stack
\* are where they started, and no further step follows; the step that
\* reports it leaves the tag list as it was.
C12_OpenFailure ==
    /\ [](cerr # <<>> =>
            /\ pc = "failed"
            /\ myfile = <<>>
            /\ commonLines = {}
            /\ coveredLines = {}
            /\ tags_it = 1
            /\ stack = <<>>
            /\ ~ENABLED Next)
    /\ [](pc = "failed" => cerr # <<>>)
    /\ [][cerr' # cerr => tags' = tags]_vars

\* the open failed for a file whose sidecars both hold line numbers
C12_Witness ==
    /\ pc = "failed"
    /\ GetCommonLines(commonFile) # {}
    /\ GetCoveredLines(coveredFile) # {}

\* ---------------------------------------------------------------- C13
TagEnd(t) == tags[t].pos + tags[t].len

\* C13: in the finished document, for a tag of nonzero length that ends at
\* the offset where another tag starts, every close of the first comes
\* before every open of the second; and whenever the open loop runs no tag
\* on the stack ends at or before the cursor.
C13_CloseBeforeOpen ==
    /\ pc = "open" => \A i \in 1..Len(stack) : TagEnd(stack[i]) > c
    /\ Done =>
         \A t, u \in 1..Len(tags) :
            (tags[t].len # 0 /\ TagEnd(t) = tags[u].pos /\ Opens(u) # {}) =>
               /\ Closes(t) # {}
               /\ Greatest(Closes(t)) < Least(Opens(u))

\* a finished render where the second tag starts where the first one ends
C13_Witness ==
    /\ Done
    /\ Len(tags) = 2
    /\ tags[1].len # 0
    /\ TagEnd(1) = tags[2].pos
    /\ Opens(2) # {}

\* ---------------------------------------------------------------- C14
\* the close loop has run for the cursor position
PastCloseLoop == pc \in {"open", "switch", "done"}

\* C14: the tags on the stack are in list order with non-increasing end
\* offsets, bottom to top; each has started at or before the cursor; after
\* the close loop each ends strictly after the cursor; and a step that
\* shortens the stack removes exactly its last entry, the one pushed last.
C14_StackOrder ==
    /\ [](/\ \A i \in 1..Len(stack) - 1 :
               /\ stack[i] < stack[i + 1]
               /\ TagEnd(stack[i]) >= TagEnd(stack[i + 1])
          /\ \A i \in 1..Len(stack) :
               /\ stack[i] < tags_it
               /\ tags[stack[i]].pos <= c
               /\ PastCloseLoop => TagEnd(stack[i]) > c)
    /\ [][Len(stack') < Len(stack) =>
             /\ stack' = SubSeq(stack, 1, Len(stack) - 1)
             /\ \A i \in 1..Len(stack) : stack[i] <= stack[Len(stack)]]_vars

\* the inner of two open tags has just been popped
C14_Witness ==
    /\ pc = "close"
    /\ stack = << 1 >>
    /\ Closes(2) # {}
    /\ TagEnd(2) = c

\* ---------------------------------------------------------------- C15
\* the start of the next pending tag, or the buffer end
PendingStart == IF tags_it # Len(tags) + 1 THEN tags[tags_it].pos ELSE end

\* C15: while the body is rendered next_end is the end of the stack's top
\* (the buffer end for an empty stack) and next_start the start of the
\* pending tag (the buffer end when none is left); outside the event block
\* next = min(next_end, next_start) and c <= next <= end.
C15_Bookkeeping ==
    Rendering =>
      /\ next_end = StackEnd
      /\ next_start = PendingStart
      /\ pc \in {"loop", "switch", "done"} =>
            /\ next = Min(next_end, next_start)
            /\ c <= next
            /\ next <= end

\* after the inner tag closed, the outer one ends before the buffer does
C15_Witness ==
    /\ pc = "switch"
    /\ stack = << 1 >>
    /\ tags_it = 3
    /\ Closes(2) # {}
    /\ next_end < end

\* ---------------------------------------------------------------- C16
\* the tags of the items of kind k among out, in order
RECURSIVE TagsOf(_, _)
TagsOf(out, k) ==
    IF out = <<>> THEN <<>>
    ELSE (IF Head(out).k = k THEN << Head(out).t >> ELSE <<>>)
            \o TagsOf(Tail(out), k)

Reverse(q) == [i \in 1..Len(q) |-> q[Len(q) + 1 - i]]

\* C16: a step taken on a newline byte leaves stack, tags_it, next_start,
\* next_end and next as they were; what it writes holds one row break, the
\* closes of the stack's tags top to bottom all before it and their opens
\* bottom to top all after it.
C16_NewlineFrame ==
    [][(pc = "switch" /\ c < end /\ buf[c + 1] = NL) =>
         /\ UNCHANGED <<stack, tags_it, next_start, next_end, next>>
         /\ Len(myfile') > Len(myfile)
         /\ LET out == SubSeq(myfile', Len(myfile) + 1, Len(myfile'))
                brk == { i \in 1..Len(out) : out[i].k = "rowbreak" }
            IN /\ Cardinality(brk) = 1
               /\ TagsOf(out, "close") = Reverse(stack)
               /\ TagsOf(out, "open") = stack
               /\ \A i \in 1..Len(out) :
                     /\ out[i].k = "close" => \A j \in brk : i < j
                     /\ out[i].k = "open" => \A j \in brk : j < i]_vars

\* a newline has just been handled with two tags open
C16_Witness ==
    /\ pc = "loop"
    /\ Len(stack) = 2
    /\ Len(myfile) >= 5
    /\ myfile[Len(myfile)].k = "open"
    /\ myfile[Len(myfile) - 1].k = "open"
    /\ myfile[Len(myfile) - 2].k = "rowbreak"
    /\ myfile[Len(myfile) - 3].k = "close"
    /\ myfile[Len(myfile) - 4].k = "close"

\* ---------------------------------------------------------------- C17
\* how far a position of generate is from the end of a loop iteration
PcRank ==
    CASE pc = "entry" -> 4
      [] pc = "loop" -> 3
      [] pc = "close" -> 2
      [] pc = "open" -> 1
      [] OTHER -> 0

\* the steps generate has left at most: bytes, pending tags, open tags
Measure ==
    4 * (end - c) + 2 * (Len(tags) + 1 - tags_it) + Len(stack) + PcRank

\* C17: every step but the last makes Measure, which is never negative,
\* smaller, and a step is possible until generate has returned; the cursor
\* starts at 0 and moves by single increments up to the buffer end; the
\* switch, the only read of *c, is reached with c < next and c < end; at the
\* buffer end the event block is entered, and generate finishes with c = end.
C17_LinearScan ==
    /\ [](/\ Measure >= 0
          /\ c >= 0
          /\ c <= end
          /\ pc = "entry" => c = 0
          /\ pc = "switch" => (c < next /\ c < end)
          /\ (pc = "loop" /\ c = end) => c = next
          /\ Done => c = end
          /\ pc \notin {"done", "failed"} => ENABLED Next)
    /\ [][/\ Measure' < Measure
          /\ c' \in {c, c + 1}
          /\ pc' = "done" => c' = end]_vars

\* a buffer of full length with a tag in it has been rendered to the end
C17_Witness ==
    /\ Done
    /\ c = MaxLen
    /\ tags # <<>>
    /\ Closes(1) # {}

\* ---------------------------------------------------------------- C18
\* C18: when generate is done every tag of the list has been taken by the
\* open loop and has its open markup in the output.
C18_AllOpened ==
    Done =>
      /\ tags_it = Len(tags) + 1
      /\ \A t \in 1..Len(tags) : Opens(t) # {}

\* ---------------------------------------------------------------- C19
\* the 1-based indices of the bytes tag t covers in line r, newlines left out
TextOnLine(t, r) ==
    { o \in (tags[t].pos + 1)..TagEnd(t) : buf[o] # NL /\ LineOf(o - 1) = r }

\* the 1-based indices of the bytes tag t covers in line r, the newline
\* that ends the line counted
BytesOnLine(t, r) ==
    { o \in (tags[t].pos + 1)..TagEnd(t) : LineOf(o - 1) = r }

\* C19 as stated: on every row with an open of a tag of nonzero length the
\* tag covers a byte of that row that is not a newline.
C19_AsStated ==
    Done =>
      \A t \in 1..Len(tags) :
        tags[t].len # 0 =>
          \A i \in Opens(t) : TextOnLine(t, RowAt(i)) # {}

\* C19, amended: on every row with an open of a tag of nonzero length the
\* tag covers a byte of that row's line, the newline that ends it counted,
\* or the row follows a newline that is the tag's last byte; between the
\* open and the tag's next close lie exactly the escaped bytes the tag
\* covers in that line, newline left out: none when there is none.
C19_RowCover ==
    Done =>
      \A t \in 1..Len(tags) :
        tags[t].len # 0 =>
          \A i \in Opens(t) :
            LET r == RowAt(i)
                S == TextOnLine(t, r)
                after == { j \in Closes(t) : j > i }
            IN /\ \/ BytesOnLine(t, r) # {}
                  \/ buf[TagEnd(t)] = NL /\ LineOf(TagEnd(t)) = r
               /\ after # {}
               /\ RowAt(Least(after)) = r
               /\ BodyOf(SubSeq(myfile, i, Least(after)))
                     = IF S = {} THEN <<>>
                       ELSE BodyEscaped(SubSeq(buf, Least(S), Greatest(S)))

\* a tag that covers only a newline: an empty pair on both rows
C19_Witness ==
    /\ Done
    /\ Len(tags) = 1
    /\ tags[1].len = 1
    /\ buf[tags[1].pos + 1] = NL
    /\ Cardinality(Opens(1)) = 2
    /\ \A i \in Opens(1) : myfile[i + 1].k = "close"

====
